---- MODULE Spec2Model ----
(***************************************************************************)
(* Model of the falling-block reward game of Spark Plug (src/app/page.tsx):*)
(* the board engine (canPlace, merge, clearLines, generateGarbage), the    *)
(* inventory and spawner, and the TetrisPlay state machine (ensurePiece,   *)
(* step, move, rotate, hardDrop, reset), of SparkPlugApp's task side        *)
(* (taskScore, the ranked list, awardRandomTetrisPieces, toggleDone) and   *)
(* of its Pomodoro timer (the interval effect, handlePhaseEnd,             *)
(* awardFocusCompletion).                                                  *)
(*                                                                         *)
(* Coordinates: the source indexes rows and columns from 0; sequences here *)
(* are indexed from 1, so the source's cell board[ny][nx] is               *)
(* board[ny + 1][nx + 1].  Offsets x, y and loop counters r, c keep the    *)
(* source's 0-based values.                                                *)
(***************************************************************************)
EXTENDS Integers, Sequences, FiniteSets, TLC

VARIABLES
    state,         \* TetrisPlay: GameState {board, piece, over, score}
    inventory,     \* SparkPlugApp: Inventory, count per piece kind
    prefill,       \* TetrisPlay: number of garbage rows used by reset
    running,       \* TetrisPlay: whether the animation-frame loop ticks
    lastConsumed,  \* TetrisPlay: kind consumed by the last successful spawn
    ensurePending, \* the ensurePiece effect is scheduled (its deps changed)
    granted,       \* history: number of pieces granted so far
    last,          \* history: the last operation and what it observed (had: a
                   \* piece was active before it; gain: score it added; idle: a
                   \* grant found the game starved; refill: a spawn used such a
                   \* grant; kept: the updater returned the state it was given)
    ledger,        \* history: pieces granted and pieces spawned so far, per kind
    timer,         \* SparkPlugApp: the Pomodoro timer, the coins and the session logs
    tIn,           \* engine harness: inputs of the function under test
    tOut,          \* engine harness: results computed so far
    pc             \* engine harness: position in the sequence of calls

gameVars == <<state, inventory, prefill, running, lastConsumed, ensurePending, granted, last, ledger>>
testVars == <<tIn, tOut, pc>>
vars == <<state, inventory, prefill, running, lastConsumed, ensurePending, granted, last, ledger, timer, tIn, tOut, pc>>

----------------------------------------------------------------------------
(* Bounds of the model *)

\* sparse harness boards hold at most MaxOcc occupied cells, dense ones at
\* most MaxOcc unoccupied cells
MaxOcc == 1
\* generateGarbage is exercised for 1 <= h <= MaxGH and 1 <= w <= MaxGW
MaxGH == 2
MaxGW == 3
\* harness inventories hold at most MaxCount pieces of a kind
MaxCount == 2
\* the game's garbage draws leave unoccupied cells only in columns 0..MaxGap
MaxGap == 0
\* the prefill setting is explored up to MaxPrefill rows
MaxPrefill == 2
\* at most MaxGranted pieces are granted in one behaviour
MaxGranted == 1
\* grants draw among the first MaxKind kinds of SHAPES
MaxKind == 3
\* the task harness samples every AttrStep-th attribute value, every
\* EffortStep-th effort value and every WeightStep-th weight slider position
AttrStep == 3
EffortStep == 3
WeightStep == 10
\* task lists hold at most MaxTasks tasks
MaxTasks == 3

----------------------------------------------------------------------------
(* Program constants *)

\* createBoard(h=20, w=10) and the generateGarbage(20,10,..) calls
BoardH == 20
BoardW == 10
\* spawnFromInventory centres a piece with the literal 10
SpawnW == 10
\* reset clamps prefill to 0..10; the prefill buttons clamp the same way
PrefillCap == 10
\* initial value of prefill
PrefillInit == 2
\* awardRandomTetrisPieces(nMin=1, nMax=3)
NMin == 1
NMax == 3
\* score per cleared line
LineScore == 100
\* runTetrisTests exercises the engine on a 4x4 board
TestH == 4
TestW == 4
\* taskScore divides impact, urgency, energyFit and complexity by 5
AttrDiv == 5
\* taskScore divides effort - 1 by 7 and scales the result by 0.1 = 1/10
EffortDiv == 7
PenaltyDiv == 10
\* the weight slider has step 0.05: 20 steps from 0 to 1
WeightSteps == 20
\* the attribute dials stop at 5, the effort dial at 8
DialMax == 5
EffortDialMax == 8

SHAPES == <<"I", "O", "T", "S", "Z", "J", "L">>

Kinds == {SHAPES[i] : i \in 1..Len(SHAPES)}

PIECE_MAP ==
    [ I |-> << <<<<1,1,1,1>>>>, <<<<1>>,<<1>>,<<1>>,<<1>>>> >>,
      O |-> << <<<<1,1>>,<<1,1>>>> >>,
      T |-> << <<<<1,1,1>>,<<0,1,0>>>>, <<<<1,0>>,<<1,1>>,<<1,0>>>>,
               <<<<0,1,0>>,<<1,1,1>>>>, <<<<0,1>>,<<1,1>>,<<0,1>>>> >>,
      S |-> << <<<<0,1,1>>,<<1,1,0>>>>, <<<<1,0>>,<<1,1>>,<<0,1>>>> >>,
      Z |-> << <<<<1,1,0>>,<<0,1,1>>>>, <<<<0,1>>,<<1,1>>,<<1,0>>>> >>,
      J |-> << <<<<1,0,0>>,<<1,1,1>>>>, <<<<1,1>>,<<1,0>>,<<1,0>>>>,
               <<<<1,1,1>>,<<0,0,1>>>>, <<<<0,1>>,<<0,1>>,<<1,1>>>> >>,
      L |-> << <<<<0,0,1>>,<<1,1,1>>>>, <<<<1,0>>,<<1,0>>,<<1,1>>>>,
               <<<<1,1,1>>,<<1,0,0>>>>, <<<<1,1>>,<<0,1>>,<<0,1>>>> >> ]

\* PIECE_MAP[shape][r] with the source's 0-based rotation index r
shapeOf(shape, r) == PIECE_MAP[shape][r + 1]

----------------------------------------------------------------------------
(* Board engine *)

createBoard(h, w) == [i \in 1..h |-> [j \in 1..w |-> 0]]

\* the body of canPlace's inner loop for the cell (r, c): TRUE when the cell
\* makes canPlace return false
cellBlocked(board, shape, x, y, r, c) ==
    /\ shape[r + 1][c + 1] # 0
    /\ LET nx == x + c
           ny == y + r
       IN  \/ ny < 0
           \/ ny >= Len(board)
           \/ nx < 0
           \/ nx >= Len(board[1])
           \/ board[ny + 1][nx + 1] # 0

\* canPlace's two nested loops, scanning the cells k = r * cols + c in
\* row-major order and returning false at the first blocked cell
RECURSIVE canPlaceFrom(_, _, _, _, _)
canPlaceFrom(board, shape, x, y, k) ==
    LET cols == Len(shape[1])
    IN  IF k >= Len(shape) * cols THEN TRUE
        ELSE IF cellBlocked(board, shape, x, y, k \div cols, k % cols) THEN FALSE
        ELSE canPlaceFrom(board, shape, x, y, k + 1)

\* canPlace without the occupancy test of the board cell
canPlaceIgnoreBoard(board, shape, x, y) ==
    \A r \in 0..(Len(shape) - 1) : \A c \in 0..(Len(shape[1]) - 1) :
        shape[r + 1][c + 1] # 0 =>
            /\ y + r >= 0 /\ y + r < Len(board)
            /\ x + c >= 0 /\ x + c < Len(board[1])

\* canPlace without the test nx >= board[0].length
canPlaceNoRightWall(board, shape, x, y) ==
    \A r \in 0..(Len(shape) - 1) : \A c \in 0..(Len(shape[1]) - 1) :
        shape[r + 1][c + 1] # 0 =>
            /\ y + r >= 0 /\ y + r < Len(board)
            /\ x + c >= 0
            /\ (x + c < Len(board[1]) => board[y + r + 1][x + c + 1] = 0)

canPlace(board, shape, x, y) == canPlaceFrom(board, shape, x, y, 0)

\* merge writing every cell of the shape matrix, occupied or not
mergeBox(board, shape, x, y) ==
    [i \in 1..Len(board) |->
        [j \in 1..Len(board[i]) |->
            IF \E r \in 0..(Len(shape) - 1) : \E c \in 0..(Len(shape[1]) - 1) :
                   y + r = i - 1 /\ x + c = j - 1
            THEN 1
            ELSE board[i][j]]]

\* the columns (0-based) merge writes in the board row i (1-based)
written(shape, x, y, i) ==
    {x + c : c \in {d \in 0..(Len(shape[1]) - 1) :
                       \E r \in 0..(Len(shape) - 1) : shape[r + 1][d + 1] # 0 /\ y + r = i - 1}}

\* merge copies the board and writes 1 at (y+r, x+c) for every occupied shape
\* cell.  An assignment past the end of a row lengthens the row, as a
\* JavaScript array does, the cells in between being undefined (-1 here); an
\* assignment at a negative column leaves the cells as they are.  A row index
\* outside the board makes the source throw: the program only merges where
\* canPlace accepted the rows, and no row is written here in that case
merge(board, shape, x, y) ==
    [i \in 1..Len(board) |->
        LET cols == written(shape, x, y, i)
            len == IF \E n \in cols : n >= Len(board[i])
                   THEN 1 + CHOOSE n \in cols : \A k \in cols : k <= n
                   ELSE Len(board[i])
        IN  [j \in 1..len |->
                IF j - 1 \in cols THEN 1
                ELSE IF j <= Len(board[i]) THEN board[i][j]
                ELSE -1]]

rowHasGap(row) == \E j \in 1..Len(row) : row[j] = 0

RECURSIVE emptyRows(_, _)
emptyRows(n, w) == IF n <= 0 THEN <<>> ELSE <<[j \in 1..w |-> 0]>> \o emptyRows(n - 1, w)

\* clearLines pushing the empty rows at the bottom instead of the top
clearLinesBottom(board) ==
    LET kept == SelectSeq(board, rowHasGap)
        cleared == Len(board) - Len(kept)
    IN  [board |-> kept \o emptyRows(cleared, Len(board[1])), lines |-> cleared]

\* clearLines removing only the lowest of the full rows
clearLinesLowest(board) ==
    LET full == {i \in 1..Len(board) : ~rowHasGap(board[i])}
        low == IF full = {} THEN 0 ELSE CHOOSE i \in full : \A j \in full : j <= i
        kept == IF low = 0 THEN board
                ELSE SubSeq(board, 1, low - 1) \o SubSeq(board, low + 1, Len(board))
        cleared == Len(board) - Len(kept)
    IN  [board |-> emptyRows(cleared, Len(board[1])) \o kept, lines |-> cleared]

clearLines(board) ==
    LET kept == SelectSeq(board, rowHasGap)
        cleared == Len(board) - Len(kept)
    IN  [board |-> emptyRows(cleared, Len(board[1])) \o kept, lines |-> cleared]

\* generateGarbage's iteration filling from the top row (y = i)
garbageRowTop(b, h, w, i, d) ==
    LET row == [j \in 1..w |-> IF j - 1 = d.gap THEN 0 ELSE d.fill[j - 1]]
        fixed == IF \A j \in 1..w : row[j] = 1
                 THEN [row EXCEPT ![d.fix + 1] = 0]
                 ELSE row
    IN  [b EXCEPT ![i + 1] = fixed]

\* one iteration (loop counter i) of generateGarbage.  d holds the outcomes of
\* the iteration's random draws: d.gap is floor(random*w), d.fill[x] is the
\* outcome of (random<0.9 ? 1 : 0) for column x (not drawn for the gap column),
\* d.fix is the floor(random*w) drawn only when the row came out full
garbageRow(b, h, w, i, d) ==
    LET y == h - 1 - i
        row == [j \in 1..w |-> IF j - 1 = d.gap THEN 0 ELSE d.fill[j - 1]]
        fixed == IF \A j \in 1..w : row[j] = 1
                 THEN [row EXCEPT ![d.fix + 1] = 0]
                 ELSE row
    IN  [b EXCEPT ![y + 1] = fixed]

RECURSIVE garbageFrom(_, _, _, _, _, _)
garbageFrom(b, h, w, rows, draws, i) ==
    IF i >= rows THEN b
    ELSE garbageFrom(garbageRow(b, h, w, i, draws[i + 1]), h, w, rows, draws, i + 1)

\* generateGarbage(h, w, rows) under the random outcomes draws[1..rows]
generateGarbage(h, w, rows, draws) == garbageFrom(createBoard(h, w), h, w, rows, draws, 0)

\* every outcome of one iteration's draws on a board of width w.  The fix
\* draw is made only for a full row, so it is left at 0 unless every fill
\* draw came out 1
Draws(w) ==
    {d \in [gap : 0..(w - 1), fill : [0..(w - 1) -> {0, 1}], fix : 0..(w - 1)] :
        d.fix = 0 \/ \A x \in 0..(w - 1) : d.fill[x] = 1}

\* the outcomes the game model explores: unoccupied cells only in columns
\* 0..MaxGap
GameDraws ==
    {d \in [gap : 0..MaxGap, fill : [0..(BoardW - 1) -> {0, 1}], fix : 0..MaxGap] :
        \A x \in 0..(BoardW - 1) : x > MaxGap => d.fill[x] = 1}

\* the boards generateGarbage(20, 10, rows) returns under GameDraws
GarbageBoards ==
    [rows \in 0..PrefillCap |->
        IF rows > MaxPrefill THEN {}
        ELSE {generateGarbage(BoardH, BoardW, rows, ds) : ds \in [1..rows -> GameDraws]}]

----------------------------------------------------------------------------
(* Inventory and spawner *)

NoPiece == [shape |-> "none", x |-> 0, y |-> 0, r |-> 0]

NoShape == "none"

ZeroInventory == [s \in Kinds |-> 0]

Max(a, b) == IF a >= b THEN a ELSE b
Min(a, b) == IF a <= b THEN a ELSE b

\* SHAPES.filter(s => (inv[s]||0) > 0), in SHAPES order
available(inv) == SelectSeq(SHAPES, LAMBDA s : inv[s] > 0)

\* spawnFromInventory storing the chosen kind's count without decrementing it
spawnNoDecrement(inv, idx) ==
    LET avail == available(inv)
    IN  IF Len(avail) = 0
        THEN [piece |-> NoPiece, consumed |-> NoShape, set |-> FALSE, inv |-> inv]
        ELSE LET shape == avail[idx + 1]
                 x == (SpawnW - Len(shapeOf(shape, 0)[1])) \div 2
             IN  [piece |-> [shape |-> shape, x |-> x, y |-> 0, r |-> 0],
                  consumed |-> shape, set |-> TRUE, inv |-> inv]

\* spawnFromInventory filtering the kinds with count >= 0 instead of > 0
spawnFromAny(inv, idx) ==
    LET avail == SelectSeq(SHAPES, LAMBDA s : inv[s] >= 0)
        shape == avail[(idx % Len(avail)) + 1]
        x == (SpawnW - Len(shapeOf(shape, 0)[1])) \div 2
    IN  [piece |-> [shape |-> shape, x |-> x, y |-> 0, r |-> 0],
         consumed |-> shape, set |-> TRUE,
         inv |-> [inv EXCEPT ![shape] = Max(0, inv[shape] - 1)]]

\* spawnFromInventory centring with the matrix's row count (matrix.length)
spawnByRows(inv, idx) ==
    LET avail == available(inv)
    IN  IF Len(avail) = 0
        THEN [piece |-> NoPiece, consumed |-> NoShape, set |-> FALSE, inv |-> inv]
        ELSE LET shape == avail[idx + 1]
                 x == (SpawnW - Len(shapeOf(shape, 0))) \div 2
             IN  [piece |-> [shape |-> shape, x |-> x, y |-> 0, r |-> 0],
                  consumed |-> shape, set |-> TRUE,
                  inv |-> [inv EXCEPT ![shape] = Max(0, inv[shape] - 1)]]

\* spawnFromInventory drawing among all of SHAPES and decrementing unfloored
spawnUnchecked(inv, idx) ==
    LET shape == SHAPES[idx + 1]
        x == (SpawnW - Len(shapeOf(shape, 0)[1])) \div 2
    IN  [piece |-> [shape |-> shape, x |-> x, y |-> 0, r |-> 0],
         consumed |-> shape, set |-> TRUE,
         inv |-> [inv EXCEPT ![shape] = inv[shape] - 1]]

\* spawnFromInventory returning no piece whatever the inventory holds
spawnNothing(inv, idx) ==
    [piece |-> NoPiece, consumed |-> NoShape, set |-> FALSE, inv |-> inv]

\* spawnFromInventory emptying the count of the kind it spawns
spawnTakesAll(inv, idx) ==
    LET avail == available(inv)
    IN  IF Len(avail) = 0
        THEN [piece |-> NoPiece, consumed |-> NoShape, set |-> FALSE, inv |-> inv]
        ELSE LET shape == avail[idx + 1]
                 next == [inv EXCEPT ![shape] = 0]
                 matrix == shapeOf(shape, 0)
                 x == (SpawnW - Len(matrix[1])) \div 2
             IN  [piece |-> [shape |-> shape, x |-> x, y |-> 0, r |-> 0],
                  consumed |-> shape, set |-> TRUE, inv |-> next]

\* spawnFromInventory(inv, setInv) when Math.floor(Math.random()*available.length)
\* comes out as idx.  set tells whether setInv was called, inv is the value it
\* was called with (the input inventory when it was not called)
spawnFromInventory(inv, idx) ==
    LET avail == available(inv)
    IN  IF Len(avail) = 0
        THEN [piece |-> NoPiece, consumed |-> NoShape, set |-> FALSE, inv |-> inv]
        ELSE LET shape == avail[idx + 1]
                 next == [inv EXCEPT ![shape] = Max(0, inv[shape] - 1)]
                 matrix == shapeOf(shape, 0)
                 x == (SpawnW - Len(matrix[1])) \div 2
             IN  [piece |-> [shape |-> shape, x |-> x, y |-> 0, r |-> 0],
                  consumed |-> shape, set |-> TRUE, inv |-> next]

\* the values Math.floor(Math.random()*available.length) can take
SpawnDraws(inv) == IF Len(available(inv)) = 0 THEN {0} ELSE 0..(Len(available(inv)) - 1)

----------------------------------------------------------------------------
(* Engine harness: the engine's functions applied to bounded inputs, in the *)
(* order the program calls them (canPlace, then merge, then clearLines;     *)
(* spawn after spawn on the inventory the previous one left).               *)

\* every rotation state of every kind
AllMatrices == {PIECE_MAP[ki[1]][ki[2]] : ki \in {kj \in Kinds \X (1..4) : kj[2] <= Len(PIECE_MAP[kj[1]])}}

Cells(h, w) == (1..h) \X (1..w)

FewCells(h, w) == {C \in SUBSET Cells(h, w) : Cardinality(C) <= MaxOcc}

\* boards of up to TestH x TestW with at most MaxOcc occupied cells
SparseBoards ==
    UNION {{[i \in 1..hw[1] |-> [j \in 1..hw[2] |-> IF <<i, j>> \in C THEN 1 ELSE 0]] :
               C \in FewCells(hw[1], hw[2])} : hw \in (1..TestH) \X (1..TestW)}

\* boards of up to TestH x TestW with at most MaxOcc unoccupied cells
DenseBoards ==
    UNION {{[i \in 1..hw[1] |-> [j \in 1..hw[2] |-> IF <<i, j>> \in C THEN 0 ELSE 1]] :
               C \in FewCells(hw[1], hw[2])} : hw \in (1..TestH) \X (1..TestW)}

\* the board runTetrisTests passes to clearLines
TestClearBoard == <<<<1,1,1,1>>, <<1,1,1,1>>, <<0,1,1,1>>, <<0,0,0,0>>>>

(* SparkPlugApp: the Pomodoro timer *)

\* the settings' defaults, in minutes, and the focus phases before a long break
FocusLen == 25
BreakLen == 5
LongBreakLen == 15
CyclesForLongBreak == 4
SecondsPerMinute == 60

\* the coins awardFocusCompletion adds
FocusCoins == 10

\* the timer after the first render and its mount effect, which replaces a
\* secondsLeft of 0 by the focus length.  seen is the phase and the cycles of
\* the render whose handlePhaseEnd the running interval calls; ends counts the
\* countdowns that have run out
TimerInit ==
    [isRunning |-> FALSE, secondsLeft |-> FocusLen * SecondsPerMinute, phase |-> "focus",
     cycles |-> 0, coins |-> 0, logs |-> <<>>,
     seen |-> [phase |-> "focus", cycles |-> 0], ends |-> 0]

\* awardFocusCompletion: both setters are functional updates
awardFocusCompletion(t) ==
    [t EXCEPT !.coins = @ + FocusCoins, !.logs = Append(@, [cycles |-> 1])]

\* handlePhaseEnd as the interval's callback runs it: phase and cycles are
\* read from the render that created the callback (seen), the setters write
\* the timer
handlePhaseEnd(t, seen) ==
    IF seen.phase = "focus"
    THEN LET a == awardFocusCompletion(t)
             nextCycles == seen.cycles + 1
         IN  IF nextCycles % CyclesForLongBreak = 0
             THEN [a EXCEPT !.cycles = nextCycles, !.phase = "longBreak",
                            !.secondsLeft = LongBreakLen * SecondsPerMinute]
             ELSE [a EXCEPT !.cycles = nextCycles, !.phase = "break",
                            !.secondsLeft = BreakLen * SecondsPerMinute]
    ELSE [t EXCEPT !.phase = "focus", !.secondsLeft = FocusLen * SecondsPerMinute]

NoOut == [none |-> TRUE]

\* nothing granted and nothing spawned yet
NoLedger == [granted |-> ZeroInventory, spawned |-> ZeroInventory]

IdleGame ==
    /\ state = [board |-> createBoard(BoardH, BoardW), piece |-> NoPiece, over |-> FALSE, score |-> 0]
    /\ inventory = ZeroInventory
    /\ prefill = PrefillInit
    /\ running = FALSE
    /\ lastConsumed = NoShape
    /\ ensurePending = FALSE
    /\ granted = 0
    /\ last = [op |-> "init"]
    /\ ledger = NoLedger
    /\ timer = TimerInit

InitEngine ==
    /\ IdleGame
    /\ tOut = NoOut
    /\ pc = "start"
    /\ \/ \E b \in SparseBoards : \E m \in AllMatrices :
            \E x \in (-1)..Len(b[1]) : \E y \in (-1)..Len(b) :
                tIn = [fn |-> "place", board |-> b, shape |-> m, x |-> x, y |-> y]
       \/ \E b \in SparseBoards \cup DenseBoards \cup {TestClearBoard} :
            tIn = [fn |-> "clear", board |-> b]
       \/ \E h \in 1..MaxGH : \E w \in 1..MaxGW : \E rows \in 0..h :
            tIn = [fn |-> "garbage", h |-> h, w |-> w, rows |-> rows]
       \/ \E inv \in [Kinds -> 0..MaxCount] :
            tIn = [fn |-> "spawn", inv |-> inv]

\* canPlace on the inputs
CheckPlace ==
    /\ tIn.fn = "place" /\ pc = "start"
    /\ tOut' = [ok |-> canPlace(tIn.board, tIn.shape, tIn.x, tIn.y)]
    /\ pc' = "placed"
    /\ UNCHANGED <<tIn, gameVars, timer>>

\* merge at a placement canPlace accepted
MergePlaced ==
    /\ tIn.fn = "place" /\ pc = "placed" /\ tOut.ok
    /\ tOut' = [ok |-> TRUE, merged |-> merge(tIn.board, tIn.shape, tIn.x, tIn.y)]
    /\ pc' = "merged"
    /\ UNCHANGED <<tIn, gameVars, timer>>

\* clearLines on the merged board, as step does
ClearMerged ==
    /\ tIn.fn = "place" /\ pc = "merged"
    /\ tOut' = [from |-> tOut.merged, res |-> clearLines(tOut.merged)]
    /\ pc' = "cleared"
    /\ UNCHANGED <<tIn, gameVars, timer>>

\* clearLines on an input board
ClearInput ==
    /\ tIn.fn = "clear" /\ pc = "start"
    /\ tOut' = [from |-> tIn.board, res |-> clearLines(tIn.board)]
    /\ pc' = "cleared"
    /\ UNCHANGED <<tIn, gameVars, timer>>

\* generateGarbage under every outcome of its draws
Generate ==
    /\ tIn.fn = "garbage" /\ pc = "start"
    /\ \E ds \in [1..tIn.rows -> Draws(tIn.w)] :
          tOut' = [board |-> generateGarbage(tIn.h, tIn.w, tIn.rows, ds)]
    /\ pc' = "generated"
    /\ UNCHANGED <<tIn, gameVars, timer>>

\* spawnFromInventory with a setInv that stores the inventory for the next call
SpawnAgain ==
    /\ tIn.fn = "spawn" /\ pc \in {"start", "spawned"}
    /\ pc = "spawned" => tOut.res.set
    /\ \E idx \in SpawnDraws(tIn.inv) :
          LET res == spawnFromInventory(tIn.inv, idx)
          IN  /\ tOut' = [before |-> tIn.inv, res |-> res,
                          prev |-> IF pc = "spawned" THEN tOut.res.consumed ELSE NoShape]
              /\ tIn' = [tIn EXCEPT !.inv = res.inv]
    /\ pc' = "spawned"
    /\ UNCHANGED <<gameVars, timer>>

NextEngine ==
    \/ CheckPlace
    \/ MergePlaced
    \/ ClearMerged
    \/ ClearInput
    \/ Generate
    \/ SpawnAgain

SpecEngine == InitEngine /\ [][NextEngine]_vars

----------------------------------------------------------------------------
(* Claims about the board engine and the spawner, checked under SpecEngine *)

\* the cells (row, column), 0-based, that shape covers at offset (x, y)
Covered(shape, x, y) ==
    {<<y + r - 1, x + c - 1>> : <<r, c>> \in
        {rc \in (1..Len(shape)) \X (1..Len(shape[1])) : shape[rc[1]][rc[2]] = 1}}

InBounds(board, cell) ==
    /\ cell[1] \in 0..(Len(board) - 1)
    /\ cell[2] \in 0..(Len(board[1]) - 1)

Fits(board, shape, x, y) ==
    \A cell \in Covered(shape, x, y) :
        InBounds(board, cell) /\ board[cell[1] + 1][cell[2] + 1] = 0

BlockShape == <<<<1, 1>>, <<1, 1>>>>

\* C1: canPlace returns true exactly when every occupied cell of the shape,
\* shifted by (x, y), is inside the board and on an unoccupied cell; on the
\* empty 4x4 board the 2x2 block is accepted at (1,1) and rejected at (3,3).
C1_CanPlaceIffFits ==
    (tIn.fn = "place" /\ pc = "placed") =>
        /\ tOut.ok = Fits(tIn.board, tIn.shape, tIn.x, tIn.y)
        /\ (tIn.board = createBoard(TestH, TestW) /\ tIn.shape = BlockShape) =>
              /\ (tIn.x = 1 /\ tIn.y = 1) => tOut.ok
              /\ (tIn.x = 3 /\ tIn.y = 3) => ~tOut.ok

\* canPlace rejected a shape that lies inside the board: an overlap
C1_Witness ==
    /\ tIn.fn = "place" /\ pc = "placed" /\ ~tOut.ok
    /\ \A cell \in Covered(tIn.shape, tIn.x, tIn.y) : InBounds(tIn.board, cell)
    /\ Len(tIn.shape) > 1 /\ Len(tIn.shape[1]) > 2

FullRows(board) == {i \in 1..Len(board) : \A j \in 1..Len(board[i]) : board[i][j] = 1}

\* C2: clearLines on a board with exactly K full rows returns lines = K and
\* a board of the same dimensions whose top K rows are empty and whose other
\* rows are the non-full input rows in their original order.
C2_ClearLinesCompacts ==
    pc = "cleared" =>
        LET in == tOut.from
            out == tOut.res.board
            K == Cardinality(FullRows(in))
            NotFull == (1..Len(in)) \ FullRows(in)
        IN  /\ tOut.res.lines = K
            /\ Len(out) = Len(in)
            /\ \A i \in 1..Len(out) : Len(out[i]) = Len(in[1])
            /\ \A i \in 1..K : \A j \in 1..Len(out[i]) : out[i][j] = 0
            /\ \A i \in NotFull :
                  out[K + Cardinality({k \in NotFull : k <= i})] = in[i]

\* a full row was cleared from under a row that is neither full nor empty
C2_Witness ==
    /\ pc = "cleared" /\ tOut.res.lines >= 1
    /\ \E i \in 1..Len(tOut.from) : \E k \in FullRows(tOut.from) :
          /\ i < k
          /\ i \notin FullRows(tOut.from)
          /\ \E j \in 1..Len(tOut.from[i]) : tOut.from[i][j] = 1

Ones(board) == Cardinality({ij \in (1..Len(board)) \X (1..Len(board[1])) : board[ij[1]][ij[2]] = 1})

\* C3: at a placement canPlace accepts, merge returns a board in which the
\* cells covered by the shape are occupied and every other cell equals the
\* input cell; the input board is the same after the call.
C3_MergeSetsCoveredCells ==
    (tIn.fn = "place" /\ pc = "merged") =>
        LET in == tIn.board
            out == tOut.merged
            cov == Covered(tIn.shape, tIn.x, tIn.y)
        IN  /\ Len(out) = Len(in)
            /\ \A i \in 1..Len(in) :
                  /\ Len(out[i]) = Len(in[i])
                  /\ \A j \in 1..Len(in[i]) :
                        out[i][j] = IF <<i - 1, j - 1>> \in cov THEN 1 ELSE in[i][j]
            /\ Ones(out) = Ones(in) + Cardinality(cov)

\* a shape with an unoccupied matrix cell was merged next to an occupied cell
C3_Witness ==
    /\ tIn.fn = "place" /\ pc = "merged"
    /\ Ones(tIn.board) >= 1
    /\ \E r \in 1..Len(tIn.shape) : \E c \in 1..Len(tIn.shape[1]) : tIn.shape[r][c] = 0
    /\ Ones(tOut.merged) = Ones(tIn.board) + 4

\* C4: generateGarbage(h, w, rows) with 0 <= rows <= h returns h rows of w
\* columns; each of the bottom `rows` rows has an unoccupied cell and every
\* row above them is empty, whatever the random draws.
C4_GarbageShape ==
    (tIn.fn = "garbage" /\ pc = "generated") =>
        LET b == tOut.board
        IN  /\ Len(b) = tIn.h
            /\ \A i \in 1..tIn.h : Len(b[i]) = tIn.w
            /\ \A i \in (tIn.h - tIn.rows + 1)..tIn.h : \E j \in 1..tIn.w : b[i][j] = 0
            /\ \A i \in 1..(tIn.h - tIn.rows) : \A j \in 1..tIn.w : b[i][j] = 0

\* a garbage row with occupied cells was generated under an empty row
C4_Witness ==
    /\ tIn.fn = "garbage" /\ pc = "generated"
    /\ tIn.rows >= 1 /\ tIn.rows < tIn.h /\ tIn.w >= 2
    /\ Cardinality({j \in 1..tIn.w : tOut.board[tIn.h][j] = 1}) = tIn.w - 1

Total(inv) == inv["I"] + inv["O"] + inv["T"] + inv["S"] + inv["Z"] + inv["J"] + inv["L"]

\* C5: a successful spawn returns a kind that had a positive count, reduces
\* that count by exactly one and leaves the other counts; from an inventory
\* holding a single piece it returns that piece's kind, leaves the inventory
\* empty, and the spawn after it returns no piece.
C5_SpawnConsumesOne ==
    (tIn.fn = "spawn" /\ pc = "spawned") =>
        LET res == tOut.res
            before == tOut.before
        IN  /\ res.piece # NoPiece =>
                  /\ res.consumed \in Kinds
                  /\ res.piece.shape = res.consumed
                  /\ before[res.consumed] > 0
                  /\ res.set
                  /\ res.inv[res.consumed] = before[res.consumed] - 1
                  /\ \A k \in Kinds \ {res.consumed} : res.inv[k] = before[k]
            /\ Total(before) = 1 =>
                  /\ res.piece # NoPiece
                  /\ before[res.consumed] = 1
                  /\ res.inv = ZeroInventory
            /\ (tOut.prev # NoShape /\ before = ZeroInventory) => res.piece = NoPiece

\* the spawn drew a kind other than the first available one, from a count
\* above one
C5_Witness ==
    /\ tIn.fn = "spawn" /\ pc = "spawned"
    /\ tOut.res.piece # NoPiece
    /\ tOut.res.consumed # available(tOut.before)[1]
    /\ tOut.before[tOut.res.consumed] > 1

\* C6: with no positive count, spawn returns no piece and no consumed kind
\* and does not call setInv.
C6_SpawnEmpty ==
    (tIn.fn = "spawn" /\ pc = "spawned" /\ \A k \in Kinds : tOut.before[k] <= 0) =>
        /\ tOut.res.piece = NoPiece
        /\ tOut.res.consumed = NoShape
        /\ ~tOut.res.set
        /\ tOut.res.inv = tOut.before
        /\ tIn.inv = tOut.before

\* a spawn on the inventory the previous spawn emptied
C6_Witness ==
    /\ tIn.fn = "spawn" /\ pc = "spawned"
    /\ tOut.before = ZeroInventory
    /\ tOut.prev # NoShape
    /\ tOut.res.piece = NoPiece

----------------------------------------------------------------------------
(* TetrisPlay: the state updaters, as functions of the GameState s *)

\* step moving the piece to the row after the one it tested
stepSkip(s) ==
    IF s.over THEN s
    ELSE IF s.piece = NoPiece THEN s
    ELSE LET shape == shapeOf(s.piece.shape, s.piece.r)
             ny == s.piece.y + 1
         IN  IF canPlace(s.board, shape, s.piece.x, ny)
             THEN [s EXCEPT !.piece = [s.piece EXCEPT !.y = ny + 1]]
             ELSE LET merged == merge(s.board, shape, s.piece.x, s.piece.y)
                      res == clearLines(merged)
                  IN  [s EXCEPT !.board = res.board, !.piece = NoPiece,
                                !.score = s.score + res.lines * LineScore]

\* step storing the merged board instead of the cleared one
stepMergeOnly(s) ==
    IF s.over THEN s
    ELSE IF s.piece = NoPiece THEN s
    ELSE LET shape == shapeOf(s.piece.shape, s.piece.r)
             ny == s.piece.y + 1
         IN  IF canPlace(s.board, shape, s.piece.x, ny)
             THEN [s EXCEPT !.piece = [s.piece EXCEPT !.y = ny]]
             ELSE LET merged == merge(s.board, shape, s.piece.x, s.piece.y)
                      res == clearLines(merged)
                  IN  [s EXCEPT !.board = merged, !.piece = NoPiece,
                                !.score = s.score + res.lines * LineScore]

\* the updater step passes to setState
step(s) ==
    IF s.over THEN s
    ELSE IF s.piece = NoPiece THEN s
    ELSE LET shape == shapeOf(s.piece.shape, s.piece.r)
             ny == s.piece.y + 1
         IN  IF canPlace(s.board, shape, s.piece.x, ny)
             THEN [s EXCEPT !.piece = [s.piece EXCEPT !.y = ny]]
             ELSE LET merged == merge(s.board, shape, s.piece.x, s.piece.y)
                      res == clearLines(merged)
                  IN  [s EXCEPT !.board = res.board, !.piece = NoPiece,
                                !.score = s.score + res.lines * LineScore]

\* move applying the candidate column without asking canPlace
moveUnchecked(s, dx) ==
    IF s.piece = NoPiece THEN s
    ELSE [s EXCEPT !.piece = [s.piece EXCEPT !.x = s.piece.x + dx]]

\* the updater move(dx) passes to setState
move(s, dx) ==
    IF s.piece = NoPiece THEN s
    ELSE LET shape == shapeOf(s.piece.shape, s.piece.r)
             nx == s.piece.x + dx
         IN  IF canPlace(s.board, shape, nx, s.piece.y)
             THEN [s EXCEPT !.piece = [s.piece EXCEPT !.x = nx]]
             ELSE s

\* rotate trying one column to the left when the rotated shape is rejected
rotateKick(s) ==
    IF s.piece = NoPiece THEN s
    ELSE LET nr == (s.piece.r + 1) % Len(PIECE_MAP[s.piece.shape])
             shape == shapeOf(s.piece.shape, nr)
         IN  IF canPlace(s.board, shape, s.piece.x, s.piece.y)
             THEN [s EXCEPT !.piece = [s.piece EXCEPT !.r = nr]]
             ELSE IF canPlace(s.board, shape, s.piece.x - 1, s.piece.y)
             THEN [s EXCEPT !.piece = [s.piece EXCEPT !.r = nr, !.x = s.piece.x - 1]]
             ELSE s

\* the updater rotate passes to setState
rotate(s) ==
    IF s.piece = NoPiece THEN s
    ELSE LET nr == (s.piece.r + 1) % Len(PIECE_MAP[s.piece.shape])
             shape == shapeOf(s.piece.shape, nr)
         IN  IF canPlace(s.board, shape, s.piece.x, s.piece.y)
             THEN [s EXCEPT !.piece = [s.piece EXCEPT !.r = nr]]
             ELSE s

\* hardDrop's loop: while (canPlace(board, shape, x, y + 1)) y++
RECURSIVE dropRow(_, _, _, _)
dropRow(board, shape, x, y) ==
    IF canPlace(board, shape, x, y + 1) THEN dropRow(board, shape, x, y + 1) ELSE y

\* the updater hardDrop passes to setState
dropPiece(s) ==
    IF s.piece = NoPiece THEN s
    ELSE LET shape == shapeOf(s.piece.shape, s.piece.r)
         IN  [s EXCEPT !.piece = [s.piece EXCEPT !.y = dropRow(s.board, shape, s.piece.x, s.piece.y)]]

\* hardDrop without its trailing call of step()
hardDropNoStep(s) == dropPiece(s)

\* hardDrop queues its updater and then calls step(), which queues step's:
\* the two updaters run in that order on the same render
hardDrop(s) == step(dropPiece(s))

\* the kinds a grant draws in the model: the first MaxKind of SHAPES
GrantKinds == {SHAPES[i] : i \in 1..Min(MaxKind, Len(SHAPES))}

\* Math.max(0, Math.min(10, prefill)) in reset
clampPrefill(p) == Max(0, Min(PrefillCap, p))

\* the number of times kind k occurs in the sequence gained
Count(gained, k) == Cardinality({i \in 1..Len(gained) : gained[i] = k})

\* awardRandomTetrisPieces counting a kind once however often it was drawn
awardOncePerKind(inv, gained) ==
    [k \in Kinds |-> IF Count(gained, k) > 0 THEN inv[k] + 1 ELSE inv[k]]

\* awardRandomTetrisPieces's loop: next[s] = (next[s]||0)+1 for gained[i],
\* gained[i+1], ...
RECURSIVE awardFrom(_, _, _)
awardFrom(next, gained, i) ==
    IF i > Len(gained) THEN next
    ELSE awardFrom([next EXCEPT ![gained[i]] = next[gained[i]] + 1], gained, i + 1)

\* awardRandomTetrisPieces: next = {...inventory}, then the loop over the
\* drawn kinds
awardTo(inv, gained) == awardFrom(inv, gained, 1)

----------------------------------------------------------------------------
(* The game: TetrisPlay mounted inside SparkPlugApp *)

IdleTest ==
    /\ tIn = [fn |-> "none"]
    /\ tOut = NoOut
    /\ pc = "game"

Init ==
    /\ IdleTest
    /\ \E b \in GarbageBoards[PrefillInit] :
          state = [board |-> b, piece |-> NoPiece, over |-> FALSE, score |-> 0]
    /\ inventory = ZeroInventory
    /\ prefill = PrefillInit
    /\ running = FALSE
    /\ lastConsumed = NoShape
    /\ ensurePending = TRUE
    /\ granted = 0
    /\ last = [op |-> "init", had |-> FALSE, gain |-> 0]
    /\ ledger = NoLedger
    /\ timer = TimerInit

\* what a setState updater leaves behind: the new state, and the ensurePiece
\* effect scheduled when state.piece changed.  With a piece active the effect
\* returns at its first test and calls no setter, so it is only kept pending
\* while there is no piece
Update(op, s) ==
    /\ state' = s
    /\ ensurePending' = (s.piece = NoPiece /\ (ensurePending \/ s.piece # state.piece))
    /\ last' = [op |-> op, had |-> state.piece # NoPiece, gain |-> s.score - state.score,
                kept |-> (s = state)]

\* toggleDone completing a task: awardRandomTetrisPieces(1, 3), with at most
\* cap pieces granted in a run and the kinds drawn from kinds.  The inventory
\* it copies is the one of the latest render, and the click is rendered
\* before the next handler or effect runs
GrantWithin(cap, kinds) ==
    /\ \E n \in NMin..NMax :
          /\ granted + n <= cap
          /\ \E gained \in [1..n -> kinds] :
                /\ inventory' = awardTo(inventory, gained)
                /\ ledger' = [ledger EXCEPT !.granted =
                                 [k \in DOMAIN @ |-> @[k] + Count(gained, k)]]
          /\ granted' = granted + n
    /\ ensurePending' = (state.piece = NoPiece)
    /\ last' = [op |-> "grant", had |-> state.piece # NoPiece, gain |-> 0,
                idle |-> (state.piece = NoPiece /\ ~ensurePending)]
    /\ UNCHANGED <<state, prefill, running, lastConsumed, testVars, timer>>

Grant == GrantWithin(MaxGranted, GrantKinds)

\* the effect on [inventory, state.piece]: ensurePiece
EnsurePiece ==
    /\ ensurePending
    /\ state.piece = NoPiece
    /\ \E idx \in SpawnDraws(inventory) :
          LET res == spawnFromInventory(inventory, idx)
          IN  IF res.piece # NoPiece
              THEN /\ state' = [state EXCEPT !.piece = res.piece]
                   /\ lastConsumed' = res.consumed
                   /\ inventory' = res.inv
                   /\ ledger' = [ledger EXCEPT !.spawned[res.piece.shape] = @ + 1]
                   /\ last' = [op |-> "spawn", had |-> FALSE, gain |-> 0,
                               refill |-> (last.op = "grant" /\ last.idle)]
                   /\ UNCHANGED running
              ELSE /\ running' = FALSE
                   /\ last' = [op |-> "starved", had |-> FALSE, gain |-> 0]
                   /\ UNCHANGED <<state, lastConsumed, inventory, ledger>>
    /\ ensurePending' = FALSE
    /\ UNCHANGED <<prefill, granted, testVars, timer>>

\* the animation-frame loop calling step() every 600 ms while running
Tick ==
    /\ running
    /\ Update("tick", step(state))
    /\ UNCHANGED <<inventory, prefill, running, lastConsumed, granted, ledger, testVars, timer>>

\* the buttons calling move(-1) and move(1)
Move ==
    /\ \E dx \in {-1, 1} : Update(IF dx < 0 THEN "left" ELSE "right", move(state, dx))
    /\ UNCHANGED <<inventory, prefill, running, lastConsumed, granted, ledger, testVars, timer>>

Rotate ==
    /\ Update("rotate", rotate(state))
    /\ UNCHANGED <<inventory, prefill, running, lastConsumed, granted, ledger, testVars, timer>>

HardDrop ==
    /\ Update("drop", hardDrop(state))
    /\ UNCHANGED <<inventory, prefill, running, lastConsumed, granted, ledger, testVars, timer>>

Reset ==
    /\ \E b \in GarbageBoards[clampPrefill(prefill)] :
          Update("reset", [board |-> b, piece |-> NoPiece, over |-> FALSE, score |-> 0])
    /\ running' = FALSE
    /\ UNCHANGED <<inventory, prefill, lastConsumed, granted, ledger, testVars, timer>>

\* the start / pause button
Start ==
    /\ ~running
    /\ running' = TRUE
    /\ last' = [op |-> "control", had |-> state.piece # NoPiece, gain |-> 0]
    /\ UNCHANGED <<state, inventory, prefill, lastConsumed, ensurePending, granted, ledger, testVars, timer>>

Pause ==
    /\ running
    /\ running' = FALSE
    /\ last' = [op |-> "control", had |-> state.piece # NoPiece, gain |-> 0]
    /\ UNCHANGED <<state, inventory, prefill, lastConsumed, ensurePending, granted, ledger, testVars, timer>>

\* the prefill buttons
PrefillDown ==
    /\ prefill' = Max(0, prefill - 1)
    /\ last' = [op |-> "control", had |-> state.piece # NoPiece, gain |-> 0]
    /\ UNCHANGED <<state, inventory, running, lastConsumed, ensurePending, granted, ledger, testVars, timer>>

PrefillUp ==
    /\ prefill < MaxPrefill
    /\ prefill' = Min(PrefillCap, prefill + 1)
    /\ last' = [op |-> "control", had |-> state.piece # NoPiece, gain |-> 0]
    /\ UNCHANGED <<state, inventory, running, lastConsumed, ensurePending, granted, ledger, testVars, timer>>

Next ==
    \/ Grant
    \/ EnsurePiece
    \/ Tick
    \/ Move
    \/ Rotate
    \/ HardDrop
    \/ Reset
    \/ Start
    \/ Pause
    \/ PrefillDown
    \/ PrefillUp

Spec == Init /\ [][Next]_vars

----------------------------------------------------------------------------
(* Claims about the game, checked under Spec *)

\* C7: a piece returned by spawn has rotation index 0, anchor row 0 and
\* anchor column floor((boardWidth - matrixWidth) / 2), for the width of the
\* game's board and of the kind's rotation-0 matrix.
C7_SpawnCentred ==
    last.op = "spawn" =>
        /\ state.piece # NoPiece
        /\ state.piece.shape \in Kinds
        /\ state.piece.shape = lastConsumed
        /\ state.piece.r = 0
        /\ state.piece.y = 0
        /\ state.piece.x =
              (Len(state.board[1]) - Len(PIECE_MAP[state.piece.shape][1][1])) \div 2

\* a piece four cells wide was spawned over a board holding garbage rows
C7_Witness ==
    /\ last.op = "spawn"
    /\ state.piece.shape = "I"
    /\ state.piece.x = 3
    /\ Ones(state.board) > 0

\* C8: in every reachable state every inventory count is a non-negative
\* integer.
C8_InventoryNonNegative ==
    \A k \in Kinds : inventory[k] \in Nat

\* a spawn took the last granted piece
C8_Witness ==
    /\ last.op = "spawn"
    /\ granted >= 1
    /\ inventory = ZeroInventory
    /\ state.piece # NoPiece

\* C9: a tick with a piece whose position one row lower canPlace accepts
\* changes nothing of the game state but the piece's row, which grows by one.
C9_TickFalls ==
    [][ ( /\ last'.op = "tick"
          /\ state.piece # NoPiece
          /\ canPlace(state.board, shapeOf(state.piece.shape, state.piece.r),
                      state.piece.x, state.piece.y + 1) )
        => /\ state'.piece.y = state.piece.y + 1
           /\ state'.piece.shape = state.piece.shape
           /\ state'.piece.x = state.piece.x
           /\ state'.piece.r = state.piece.r
           /\ state'.board = state.board
           /\ state'.score = state.score
           /\ state'.over = state.over ]_vars

\* a tick moved a piece down
C9_Witness ==
    /\ last.op = "tick"
    /\ last.had
    /\ state.piece # NoPiece
    /\ state.piece.y >= 2

\* C10: a tick with a piece whose position one row lower canPlace rejects
\* makes the board clearLines(merge(board, shape, x, y)), adds 100 per
\* cleared row to the score and leaves no active piece.
C10_TickLands ==
    [][ ( /\ last'.op = "tick"
          /\ state.piece # NoPiece
          /\ ~canPlace(state.board, shapeOf(state.piece.shape, state.piece.r),
                       state.piece.x, state.piece.y + 1) )
        => LET merged == merge(state.board, shapeOf(state.piece.shape, state.piece.r),
                               state.piece.x, state.piece.y)
           IN  /\ state'.board = clearLines(merged).board
               /\ state'.score = state.score + 100 * Cardinality(FullRows(merged))
               /\ state'.piece = NoPiece ]_vars

\* a tick landed a piece and the landing cleared rows
C10_Witness ==
    /\ last.op = "tick"
    /\ last.had
    /\ state.piece = NoPiece
    /\ last.gain >= 100
    /\ state.score = last.gain
----------------------------------------------------------------------------
(* The game under the scheduling React guarantees: an effect whose           *)
(* dependencies changed is run after the render that changed them            *)

SpecLive == Init /\ [][Next]_vars /\ WF_vars(EnsurePiece)

\* C11: whenever there is no active piece and some inventory count is
\* positive, the game eventually has an active piece; while no piece is
\* active a tick leaves the game state as it is, and while the inventory
\* stays empty the game stays without a piece.
C11_IdleToFalling ==
    /\ (state.piece = NoPiece /\ Total(inventory) > 0) ~> (state.piece # NoPiece)
    /\ [][ (last'.op = "tick" /\ state.piece = NoPiece) => state' = state ]_vars
    /\ [][ (state.piece = NoPiece /\ inventory = ZeroInventory /\ inventory' = ZeroInventory)
           => state'.piece = NoPiece ]_vars

\* a piece was spawned from a grant made while the game was starved
C11_Witness ==
    /\ last.op = "spawn"
    /\ last.refill
    /\ state.piece # NoPiece
\* C12: a move or a rotation is applied only if canPlace accepts the
\* candidate (column x+dx, or the next rotation state at the same anchor);
\* when the candidate is rejected, or there is no active piece, the game
\* state is left as it was.
C12_MoveRotateChecked ==
    /\ [][ last'.op \in {"left", "right"} =>
             LET dx == IF last'.op = "left" THEN -1 ELSE 1
             IN  IF /\ state.piece # NoPiece
                    /\ canPlace(state.board, shapeOf(state.piece.shape, state.piece.r),
                                state.piece.x + dx, state.piece.y)
                 THEN state' = [state EXCEPT !.piece.x = state.piece.x + dx]
                 ELSE state' = state ]_vars
    /\ [][ last'.op = "rotate" =>
             IF state.piece = NoPiece THEN state' = state
             ELSE LET n == Len(PIECE_MAP[state.piece.shape])
                      nr == IF state.piece.r + 1 = n THEN 0 ELSE state.piece.r + 1
                  IN  IF canPlace(state.board, PIECE_MAP[state.piece.shape][nr + 1],
                                  state.piece.x, state.piece.y)
                      THEN state' = [state EXCEPT !.piece.r = nr]
                      ELSE state' = state ]_vars

\* a move to the left was rejected for a piece standing at the left wall
C12_Witness ==
    /\ last.op = "left"
    /\ last.had
    /\ last.kept
    /\ state.piece # NoPiece
    /\ state.piece.x = 0

\* the row hardDrop leaves the piece at: the first row from y down whose
\* successor canPlace rejects
LandingRow(s) ==
    LET shape == shapeOf(s.piece.shape, s.piece.r)
    IN  CHOOSE yd \in s.piece.y..Len(s.board) :
            /\ \A k \in (s.piece.y + 1)..yd : canPlace(s.board, shape, s.piece.x, k)
            /\ ~canPlace(s.board, shape, s.piece.x, yd + 1)

\* C13: a hard drop with a piece active lands the piece at the first row
\* whose successor canPlace rejects: the board becomes the merged board with
\* its full rows cleared, the score grows by 100 per cleared row and no piece
\* remains; a hard drop without a piece changes nothing.
C13_HardDropLands ==
    [][ last'.op = "drop" =>
          IF state.piece = NoPiece THEN state' = state
          ELSE LET merged == merge(state.board, shapeOf(state.piece.shape, state.piece.r),
                                   state.piece.x, LandingRow(state))
               IN  /\ state'.board = clearLines(merged).board
                   /\ state'.score = state.score + 100 * Cardinality(FullRows(merged))
                   /\ state'.piece = NoPiece
                   /\ state'.over = state.over ]_vars

\* a hard drop landed a piece from the top of the board and cleared rows
C13_Witness ==
    /\ last.op = "drop"
    /\ last.had
    /\ last.gain >= 100
    /\ state.piece = NoPiece
\* C14: whenever no piece could be spawned (every inventory count is 0) and
\* no piece is active, the game state's flag over is set.
C14_OverOnStarvation ==
    (state.piece = NoPiece /\ inventory = ZeroInventory /\ ~ensurePending) => state.over

\* C15: in every reachable game state the board has exactly 20 rows of
\* exactly 10 cells, each 0 or 1; the active piece, whose cells a landing
\* writes, lies inside the board, and so does the position a hard drop
\* merges at.
C15_BoardShape ==
    /\ [](/\ Len(state.board) = BoardH
          /\ \A i \in 1..Len(state.board) :
                /\ Len(state.board[i]) = BoardW
                /\ \A j \in 1..Len(state.board[i]) : state.board[i][j] \in {0, 1}
          /\ state.piece # NoPiece =>
                \A cell \in Covered(shapeOf(state.piece.shape, state.piece.r),
                                    state.piece.x, state.piece.y) :
                    InBounds(state.board, cell))
    /\ [][ (last'.op = "drop" /\ state.piece # NoPiece) =>
             \A cell \in Covered(shapeOf(state.piece.shape, state.piece.r),
                                 state.piece.x, LandingRow(state)) :
                 InBounds(state.board, cell) ]_vars

\* a piece moved to the right wall has landed there, above the garbage rows
C15_Witness ==
    /\ last.op \in {"tick", "drop"}
    /\ last.had
    /\ state.piece = NoPiece
    /\ \E i \in 1..(BoardH - MaxPrefill) : state.board[i][BoardW] = 1
----------------------------------------------------------------------------
(* SparkPlugApp: task scoring *)

\* Numbers are JavaScript doubles in the source.  Here a number v is held as
\* the integer v * One.  With integer attributes and weights that are
\* multiples of the weight slider's step every quotient and product that
\* taskScore forms is a whole multiple of 1/One, so the arithmetic is exact
One == 700

num(n) == n * One

\* the product of two numbers
mul(a, b) == (a * b) \div One

\* the weight slider: min 0, max 1, step 0.05; weight(k) is k steps
weight(k) == k * (One \div WeightSteps)

clamp01(x) == Max(0, Min(One, x))

\* { impact: 0.4, urgency: 0.3, energyFit: 0.2, complexity: 0.1 }
defaultWeights ==
    [impact |-> weight(8), urgency |-> weight(6), energyFit |-> weight(4), complexity |-> weight(2)]

\* taskScore returning the sum without Math.max(0, ..)
taskScoreNoFloor(t, w) ==
    LET imp == clamp01(num(t.impact) \div AttrDiv)
        urg == clamp01(num(t.urgency) \div AttrDiv)
        fit == clamp01(num(t.energyFit) \div AttrDiv)
        cpx == clamp01(num(t.complexity) \div AttrDiv)
        effortPenalty == mul(clamp01((num(t.effort) - num(1)) \div EffortDiv), One \div PenaltyDiv)
    IN  mul(w.impact, imp) + mul(w.urgency, urg) + mul(w.energyFit, fit)
            - mul(w.complexity, cpx) - effortPenalty

\* taskScore adding the effort penalty instead of subtracting it
taskScoreEffortGain(t, w) ==
    LET imp == clamp01(num(t.impact) \div AttrDiv)
        urg == clamp01(num(t.urgency) \div AttrDiv)
        fit == clamp01(num(t.energyFit) \div AttrDiv)
        cpx == clamp01(num(t.complexity) \div AttrDiv)
        effortPenalty == mul(clamp01((num(t.effort) - num(1)) \div EffortDiv), One \div PenaltyDiv)
    IN  Max(0, mul(w.impact, imp) + mul(w.urgency, urg) + mul(w.energyFit, fit)
                   - mul(w.complexity, cpx) + effortPenalty)

taskScore(t, w) ==
    LET imp == clamp01(num(t.impact) \div AttrDiv)
        urg == clamp01(num(t.urgency) \div AttrDiv)
        fit == clamp01(num(t.energyFit) \div AttrDiv)
        cpx == clamp01(num(t.complexity) \div AttrDiv)
        effortPenalty == mul(clamp01((num(t.effort) - num(1)) \div EffortDiv), One \div PenaltyDiv)
    IN  Max(0, mul(w.impact, imp) + mul(w.urgency, urg) + mul(w.energyFit, fit)
                   - mul(w.complexity, cpx) - effortPenalty)

\* the task addTaskFromQuick creates
quickTask(id) ==
    [id |-> id, impact |-> 3, urgency |-> 3, energyFit |-> 3, complexity |-> 2,
     effort |-> 1, done |-> FALSE]

\* identifiers, standing for the distinct strings uid() returns
Ids == <<"t1", "t2", "t3", "t4", "t5", "t6">>

NoId == "undefined"

----------------------------------------------------------------------------
(* Task harness: taskScore, ranked, awardRandomTetrisPieces and toggleDone  *)
(* applied to bounded inputs                                                *)

Attrs == {"impact", "urgency", "energyFit", "complexity", "effort"}

\* attribute values: every AttrStep-th value from 0 to one past the dial's
\* maximum (the dials keep 0..5, and 1..8 for effort)
AttrSamples == {v \in 0..(DialMax + 1) : v % AttrStep = 0}
EffortSamples == {v \in 0..(EffortDialMax + 1) : v % EffortStep = 0}

\* weights: every WeightStep-th slider position, and the default vector
WeightSamples == {weight(k) : k \in {j \in 0..WeightSteps : j % WeightStep = 0}}
WeightVectors ==
    [{"impact", "urgency", "energyFit", "complexity"} -> WeightSamples] \cup {defaultWeights}

ScoreTasks ==
    {[id |-> Ids[1], impact |-> a[1], urgency |-> a[2], energyFit |-> a[3],
      complexity |-> a[4], effort |-> e, done |-> d] :
        a \in AttrSamples \X AttrSamples \X AttrSamples \X AttrSamples,
        e \in EffortSamples, d \in {FALSE}}

SamplesOf(attr) == IF attr = "effort" THEN EffortSamples ELSE AttrSamples

\* the inputs of taskScore: a task, a weight vector, and the same task with
\* one attribute raised
ScoreInputs ==
    {[fn |-> "score", t |-> p[1], w |-> p[2], attr |-> p[3], to |-> p[4]] :
        p \in {q \in ScoreTasks \X WeightVectors \X Attrs \X (AttrSamples \cup EffortSamples) :
                  q[4] \in SamplesOf(q[3]) /\ q[4] > q[1][q[3]]}}

\* taskScore on the task and on the task with the attribute raised
Score ==
    /\ tIn.fn = "score" /\ pc = "start"
    /\ tOut' = [score |-> taskScore(tIn.t, tIn.w),
                raised |-> taskScore([tIn.t EXCEPT ![tIn.attr] = tIn.to], tIn.w)]
    /\ pc' = "scored"
    /\ UNCHANGED <<tIn, gameVars, timer>>

----------------------------------------------------------------------------
(* SparkPlugApp: ranking *)

\* the comparator (a, b) => b.score - a.score
compare(a, b) == b.score - a.score

\* inserting e before the elements it ties with
insertBeforeTies(sorted, e) ==
    LET k == Cardinality({i \in 1..Len(sorted) : compare(sorted[i], e) < 0})
    IN  SubSeq(sorted, 1, k) \o <<e>> \o SubSeq(sorted, k + 1, Len(sorted))

\* Array.prototype.sort is stable: an element is placed after every element
\* the comparator does not order behind it
RECURSIVE insertSorted(_, _)
insertSorted(sorted, e) ==
    IF sorted = <<>> THEN <<e>>
    ELSE IF compare(Head(sorted), e) <= 0
         THEN <<Head(sorted)>> \o insertSorted(Tail(sorted), e)
         ELSE <<e>> \o sorted

RECURSIVE sortFrom(_, _, _)
sortFrom(seq, i, acc) ==
    IF i > Len(seq) THEN acc ELSE sortFrom(seq, i + 1, insertSorted(acc, seq[i]))

\* tasks.filter(t => !t.done).map(t => ({ t, score })).sort(comparator)
ranked(tasks, w) ==
    LET undone == SelectSeq(tasks, LAMBDA t : ~t.done)
        scored == [i \in 1..Len(undone) |-> [t |-> undone[i], score |-> taskScore(undone[i], w)]]
    IN  sortFrom(scored, 1, <<>>)

\* ranked[0]?.t.id
bestNextTaskId(tasks, w) ==
    LET r == ranked(tasks, w)
    IN  IF Len(r) = 0 THEN NoId ELSE r[1].t.id

\* task lists of at most MaxTasks tasks with distinct identifiers, drawn
\* from the pool
ListsOf(pool) ==
    UNION {{[i \in 1..n |-> [f[i] EXCEPT !.id = Ids[i]]] : f \in [1..n -> pool]} : n \in 0..MaxTasks}

\* quick-added tasks whose impact dial was moved, done or not
RankPool ==
    {[quickTask(NoId) EXCEPT !.impact = a, !.done = d] : a \in AttrSamples, d \in BOOLEAN}

RankInputs == {[fn |-> "rank", tasks |-> p[1], w |-> p[2]] : p \in ListsOf(RankPool) \X WeightVectors}

\* the memo ranked and bestNextTaskId() on the task list
Rank ==
    /\ tIn.fn = "rank" /\ pc = "start"
    /\ tOut' = [ranked |-> ranked(tIn.tasks, tIn.w), best |-> bestNextTaskId(tIn.tasks, tIn.w)]
    /\ pc' = "ranked"
    /\ UNCHANGED <<tIn, gameVars, timer>>

----------------------------------------------------------------------------
(* SparkPlugApp: the piece award and toggleDone *)

\* the outcomes of awardRandomTetrisPieces's draws: u is
\* floor(random * (nMax - nMin + 1)), picks[i] is floor(random * SHAPES.length)
\* of the i-th iteration
AwardDraws(nMin, nMax) ==
    UNION {{[u |-> u, picks |-> p] : p \in [1..(u + nMin) -> 0..(Len(SHAPES) - 1)]} :
              u \in 0..(nMax - nMin)}

\* awardRandomTetrisPieces(nMin, nMax) with the closure's inventory inv under
\* the draws d: inv is the value passed to setInventory, gained the value
\* passed to setLastAward
awardRandomTetrisPieces(inv, nMin, nMax, d) ==
    LET n == d.u + nMin
        gained == [i \in 1..n |-> SHAPES[d.picks[i] + 1]]
    IN  [inv |-> awardTo(inv, gained), gained |-> gained]

\* toggleDone awarding on every toggle, whatever its direction
toggleDoneAwardAlways(tasks, id, inv, d) ==
    LET hits == {i \in 1..Len(tasks) : tasks[i].id = id}
        award == awardRandomTetrisPieces(inv, NMin, NMax, d)
    IN  [tasks |-> [i \in 1..Len(tasks) |->
                       IF tasks[i].id # id THEN tasks[i]
                       ELSE [tasks[i] EXCEPT !.done = ~tasks[i].done]],
         inv |-> IF hits = {} THEN inv ELSE award.inv,
         lastAward |-> IF hits = {} THEN <<>> ELSE award.gained,
         awards |-> Cardinality(hits)]

\* toggleDone(id): the updater maps the task list, and for a task with that
\* id that becomes done it calls awardRandomTetrisPieces(), which computes
\* from the inventory of the render (inv) and sets inventory and lastAward
\* to values, so the last call decides them.  awards counts the calls; every
\* call of one toggle is modelled with the same draws d (identifiers are
\* distinct, so there is at most one)
toggleDone(tasks, id, inv, d) ==
    LET hits == {i \in 1..Len(tasks) : tasks[i].id = id /\ ~tasks[i].done}
        award == awardRandomTetrisPieces(inv, NMin, NMax, d)
    IN  [tasks |-> [i \in 1..Len(tasks) |->
                       IF tasks[i].id # id THEN tasks[i]
                       ELSE [tasks[i] EXCEPT !.done = ~tasks[i].done]],
         inv |-> IF hits = {} THEN inv ELSE award.inv,
         lastAward |-> IF hits = {} THEN <<>> ELSE award.gained,
         awards |-> Cardinality(hits)]

\* inventories holding at most one piece
SmallInventories == {inv \in [Kinds -> 0..1] : Total(inv) <= 1}

AwardInputs ==
    {[fn |-> "award", inv |-> p[1], nMin |-> p[2], nMax |-> p[3]] :
        p \in {q \in SmallInventories \X (0..NMax) \X (0..NMax) : q[2] <= q[3]}}

\* awardRandomTetrisPieces under every outcome of its draws
Award ==
    /\ tIn.fn = "award" /\ pc = "start"
    /\ \E d \in AwardDraws(tIn.nMin, tIn.nMax) :
          tOut' = awardRandomTetrisPieces(tIn.inv, tIn.nMin, tIn.nMax, d)
    /\ pc' = "awarded"
    /\ UNCHANGED <<tIn, gameVars, timer>>

\* quick-added tasks, done or not
TogglePool == {[quickTask(NoId) EXCEPT !.done = d] : d \in BOOLEAN}

\* the identifier is one of the list's or one no task has
ToggleInputs ==
    {[fn |-> "toggle", tasks |-> p[1], id |-> Ids[p[2]], inv |-> p[3]] :
        p \in {q \in ListsOf(TogglePool) \X (1..(MaxTasks + 1)) \X {ZeroInventory, [ZeroInventory EXCEPT !["I"] = 1]} :
                  q[2] <= Len(q[1]) + 1}}

\* toggleDone under every outcome of the award's draws
ToggleDone ==
    /\ tIn.fn = "toggle" /\ pc = "start"
    /\ \E d \in AwardDraws(NMin, NMax) :
          tOut' = toggleDone(tIn.tasks, tIn.id, tIn.inv, d)
    /\ pc' = "toggled"
    /\ UNCHANGED <<tIn, gameVars, timer>>

InitTasks ==
    /\ IdleGame
    /\ tOut = NoOut
    /\ pc = "start"
    /\ tIn \in ScoreInputs \cup RankInputs \cup AwardInputs \cup ToggleInputs

NextTasks ==
    \/ Score
    \/ Rank
    \/ Award
    \/ ToggleDone

SpecTasks == InitTasks /\ [][NextTasks]_vars

----------------------------------------------------------------------------
(* Claims about scoring, ranking, the award and toggleDone, checked under   *)
(* SpecTasks                                                                *)

\* an attribute value clamped to 0..hi
ClampTo(a, hi) == IF a < 0 THEN 0 ELSE IF a > hi THEN hi ELSE a

\* 70 times the claimed sum, before the floor at 0, for weights and result
\* held as multiples of 1/One: 70 * (sum of w*a/5 - 0.1*(e-1)/7)
Raw70(t, w) ==
    14 * (w.impact * ClampTo(t.impact, 5) + w.urgency * ClampTo(t.urgency, 5)
            + w.energyFit * ClampTo(t.energyFit, 5) - w.complexity * ClampTo(t.complexity, 5))
        - One * ClampTo(t.effort - 1, 7)

\* C16: score(task, weights) equals max(0, w.impact*clamp01(impact/5)
\* + w.urgency*clamp01(urgency/5) + w.energyFit*clamp01(energyFit/5)
\* - w.complexity*clamp01(complexity/5) - 0.1*clamp01((effort-1)/7)) and is
\* never negative.
C16_ScoreFormula ==
    pc = "scored" =>
        /\ tOut.score >= 0
        /\ 70 * tOut.score = (IF Raw70(tIn.t, tIn.w) > 0 THEN Raw70(tIn.t, tIn.w) ELSE 0)

\* a task whose penalties outweigh its gains was scored 0
C16_Witness ==
    /\ pc = "scored"
    /\ Raw70(tIn.t, tIn.w) < 0
    /\ tOut.score = 0
    /\ tIn.t.complexity > 0
    /\ tIn.w.impact > 0

\* C17: with the weights and the other attributes fixed, the score does not
\* decrease when impact, urgency or energyFit is raised and does not
\* increase when complexity or effort is raised.
C17_ScoreMonotone ==
    pc = "scored" =>
        /\ tIn.attr \in {"impact", "urgency", "energyFit"} => tOut.raised >= tOut.score
        /\ tIn.attr \in {"complexity", "effort"} => tOut.raised <= tOut.score

\* raising effort lowered a score
C17_Witness ==
    /\ pc = "scored"
    /\ tIn.attr = "effort"
    /\ tIn.to > tIn.t.effort
    /\ tOut.raised < tOut.score

\* the position of the task with identifier id in the list
PosOf(tasks, id) == CHOOSE i \in 1..Len(tasks) : tasks[i].id = id

\* C18: the ranked sequence holds the tasks that are not done, each with its
\* score, in descending order of score, tasks of equal score in their order
\* in the task list; the recommended task is the first of the sequence, whose
\* score is the largest.
C18_RankedOrder ==
    pc = "ranked" =>
        LET R == tOut.ranked
            T == tIn.tasks
        IN  /\ Len(R) = Cardinality({i \in 1..Len(T) : ~T[i].done})
            /\ {R[i].t : i \in 1..Len(R)} = {T[i] : i \in {j \in 1..Len(T) : ~T[j].done}}
            /\ \A i \in 1..Len(R) : 70 * R[i].score = Max(0, Raw70(R[i].t, tIn.w))
            /\ \A i \in 1..Len(R) : \A j \in 1..Len(R) :
                  i < j =>
                     /\ R[i].score >= R[j].score
                     /\ R[i].score = R[j].score => PosOf(T, R[i].t.id) < PosOf(T, R[j].t.id)
            /\ tOut.best = (IF Len(R) = 0 THEN NoId ELSE R[1].t.id)
            /\ \A j \in 1..Len(R) : R[1].score >= R[j].score

\* three tasks were ranked: the first of the list came out last and the two
\* others, of equal score, kept their order
C18_Witness ==
    /\ pc = "ranked"
    /\ Len(tOut.ranked) = 3
    /\ tOut.ranked[1].score = tOut.ranked[2].score
    /\ tOut.ranked[2].score > tOut.ranked[3].score
    /\ tOut.ranked[3].t.id = tIn.tasks[1].id
    /\ tOut.best = tIn.tasks[2].id

\* C19: the award grants n pieces with min <= n <= max: the granted list has
\* length n, every granted kind is one of the 7 kinds, every count grows by
\* the number of times its kind is in the list and no count decreases.
C19_AwardCounts ==
    pc = "awarded" =>
        /\ Len(tOut.gained) \in tIn.nMin..tIn.nMax
        /\ \A i \in 1..Len(tOut.gained) : tOut.gained[i] \in Kinds
        /\ \A k \in Kinds :
              /\ tOut.inv[k] = tIn.inv[k] + Count(tOut.gained, k)
              /\ tOut.inv[k] >= tIn.inv[k]

\* the default award granted three pieces, two of them of one kind
C19_Witness ==
    /\ pc = "awarded"
    /\ tIn.nMin = NMin /\ tIn.nMax = NMax
    /\ Len(tOut.gained) = 3
    /\ Count(tOut.gained, "T") = 2
    /\ tOut.inv["T"] = tIn.inv["T"] + 2

\* C20: toggling a task from not done to done makes exactly one award;
\* toggling it from done to not done leaves the inventory as it was; only
\* the task with the identifier changes, and only in its done flag.
C20_ToggleDone ==
    pc = "toggled" =>
        LET T == tIn.tasks
            R == tOut.tasks
        IN  /\ Len(R) = Len(T)
            /\ \A i \in 1..Len(T) :
                  IF T[i].id = tIn.id
                  THEN R[i] = [T[i] EXCEPT !.done = ~T[i].done]
                  ELSE R[i] = T[i]
            /\ IF \E i \in 1..Len(T) : T[i].id = tIn.id /\ ~T[i].done
               THEN /\ tOut.awards = 1
                    /\ Len(tOut.lastAward) \in NMin..NMax
                    /\ \A k \in Kinds : tOut.inv[k] = tIn.inv[k] + Count(tOut.lastAward, k)
               ELSE /\ tOut.awards = 0
                    /\ tOut.inv = tIn.inv

\* the second of three tasks was completed and two pieces were granted
C20_Witness ==
    /\ pc = "toggled"
    /\ Len(tIn.tasks) = 3
    /\ tIn.id = tIn.tasks[2].id
    /\ ~tIn.tasks[2].done
    /\ tOut.tasks[2].done
    /\ Len(tOut.lastAward) = 2
    /\ Total(tOut.inv) = Total(tIn.inv) + 2
----------------------------------------------------------------------------
(* The Pomodoro timer of SparkPlugApp *)

\* how many countdowns run out in a run
MaxPhaseEnds == 3

\* the start button: setIsRunning(true).  The effect on [isRunning] then
\* creates the interval, whose callback closes over the handlePhaseEnd of
\* this render: it keeps the phase and the cycles of the moment of the start
StartTimer ==
    /\ ~timer.isRunning
    /\ timer' = [timer EXCEPT !.isRunning = TRUE,
                              !.seen = [phase |-> timer.phase, cycles |-> timer.cycles]]
    /\ UNCHANGED <<gameVars, testVars>>

\* the pause button: setIsRunning(false); the effect's cleanup clears the
\* interval
PauseTimer ==
    /\ timer.isRunning
    /\ timer' = [timer EXCEPT !.isRunning = FALSE]
    /\ UNCHANGED <<gameVars, testVars>>

\* the reset button
ResetTimer ==
    /\ timer' = [timer EXCEPT !.isRunning = FALSE, !.phase = "focus",
                              !.secondsLeft = FocusLen * SecondsPerMinute, !.cycles = 0]
    /\ UNCHANGED <<gameVars, testVars>>

\* the interval's callback, once a second: setSecondsLeft with the updater
\* that calls handlePhaseEnd when the countdown runs out and returns 0.  The
\* updater's 0 and the handler's setSecondsLeft land in the same queue, in
\* the order React ran the updater in (at the call, or in the next render),
\* so either of the two is the value left
TimerTick ==
    /\ timer.isRunning
    /\ IF timer.secondsLeft <= 1
       THEN /\ timer.ends < MaxPhaseEnds
            /\ LET e == handlePhaseEnd(timer, timer.seen)
               IN  \E s \in {0, e.secondsLeft} :
                      timer' = [e EXCEPT !.secondsLeft = s, !.ends = @ + 1]
       ELSE timer' = [timer EXCEPT !.secondsLeft = @ - 1]
    /\ UNCHANGED <<gameVars, testVars>>

InitTimer ==
    /\ IdleGame
    /\ IdleTest

NextTimer ==
    \/ StartTimer
    \/ PauseTimer
    \/ ResetTimer
    \/ TimerTick

SpecTimer == InitTimer /\ [][NextTimer]_vars

\* a step of the running timer in which a countdown runs out
PhaseEnds == timer.isRunning /\ timer'.isRunning /\ timer'.ends = timer.ends + 1

\* C21: while the timer runs, the end of a focus phase adds one to cycles and
\* starts a long break when the new count is a multiple of
\* cyclesForLongBreak, a break otherwise, and the end of a break or of a long
\* break starts a focus phase and leaves cycles alone
C21_PhasesAlternate ==
    [][PhaseEnds =>
          IF timer.phase = "focus"
          THEN /\ timer'.cycles = timer.cycles + 1
               /\ timer'.phase = IF timer'.cycles % CyclesForLongBreak = 0
                                 THEN "longBreak" ELSE "break"
          ELSE /\ timer'.phase = "focus"
               /\ timer'.cycles = timer.cycles]_vars

\* C26: the end of a focus phase adds exactly 10 coins and appends exactly one
\* log entry, and the end of a break or of a long break leaves coins and logs
\* as they were
C26_CoinsPerFocus ==
    [][PhaseEnds =>
          IF timer.phase = "focus"
          THEN /\ timer'.coins = timer.coins + FocusCoins
               /\ Len(timer'.logs) = Len(timer.logs) + 1
               /\ SubSeq(timer'.logs, 1, Len(timer.logs)) = timer.logs
          ELSE /\ timer'.coins = timer.coins
               /\ timer'.logs = timer.logs]_vars
----------------------------------------------------------------------------
(* A long game under few inputs: only I pieces are granted, and the player
   only rotates and hard-drops, so that the stack grows to the top rows *)

\* how many pieces are granted in such a game
MaxStackGranted == 7

GrantStack == GrantWithin(MaxStackGranted, {"I"})

NextStack ==
    \/ GrantStack
    \/ EnsurePiece
    \/ Rotate
    \/ HardDrop

SpecStack == Init /\ [][NextStack]_vars

\* C22: whenever a piece is active, canPlace accepts its shape at its
\* position on the current board: it lies inside the board and overlaps no
\* occupied cell, right after a spawn included
C22_ActivePieceFits ==
    state.piece # NoPiece =>
        canPlace(state.board, shapeOf(state.piece.shape, state.piece.r),
                 state.piece.x, state.piece.y)
----------------------------------------------------------------------------
(* The board and the piece across the game's transitions *)

\* C23: no state of the game has a fully occupied board row: the initial and
\* the reset boards have none, and a landing stores the board after
\* clearLines, never the merged board
C23_NoFullRow == FullRows(state.board) = {}

\* a landing that completed two rows at once, after which no row is full
C23_Witness ==
    /\ last.op \in {"tick", "drop"}
    /\ last.had
    /\ last.gain = 2 * LineScore
    /\ FullRows(state.board) = {}

\* what an accepted move or rotation leaves alone: board, score, over, and
\* the piece's kind and row
SameButPiece ==
    /\ state'.board = state.board
    /\ state'.score = state.score
    /\ state'.over = state.over
    /\ state'.piece.shape = state.piece.shape
    /\ state'.piece.y = state.piece.y

\* C24: an accepted move changes the piece's column by dx and nothing else;
\* an accepted rotation changes the rotation index to (r + 1) modulo the
\* kind's number of rotation states and nothing else, the column included;
\* the rotation index of an active piece is always one of the kind's
\* rotation states
C24_MoveRotateFrame ==
    /\ [][(last'.op \in {"left", "right"} /\ state' # state) =>
             /\ state.piece # NoPiece
             /\ state'.piece # NoPiece
             /\ state'.piece.x = state.piece.x + (IF last'.op = "left" THEN -1 ELSE 1)
             /\ state'.piece.r = state.piece.r
             /\ SameButPiece]_vars
    /\ [][(last'.op = "rotate" /\ state' # state) =>
             /\ state.piece # NoPiece
             /\ state'.piece # NoPiece
             /\ state'.piece.r = (state.piece.r + 1) % Len(PIECE_MAP[state.piece.shape])
             /\ state'.piece.x = state.piece.x
             /\ SameButPiece]_vars
    /\ [](state.piece # NoPiece =>
             state.piece.r \in 0..(Len(PIECE_MAP[state.piece.shape]) - 1))

\* an accepted rotation of a T from its last rotation state back to the first
C24_Witness ==
    /\ last.op = "rotate"
    /\ last.had
    /\ ~last.kept
    /\ state.piece # NoPiece
    /\ state.piece.shape = "T"
    /\ state.piece.r = 0
----------------------------------------------------------------------------
(* Grants and spawns in turn: tasks are completed while pieces are spawned
   and dropped, the player only hard-drops *)

\* how many pieces are granted in such a game
MaxLedgerGranted == 3

GrantMany == GrantWithin(MaxLedgerGranted, GrantKinds)

NextInventory ==
    \/ GrantMany
    \/ EnsurePiece
    \/ HardDrop

SpecInventory == Init /\ [][NextInventory]_vars

====
